---- MODULE Spec2Model ----
(***************************************************************************)
(* Model of thunderbird/processes/wps_generate_climos.py: the request      *)
(* handler GenerateClimos._handler with its helpers dry_run_info,          *)
(* collect_climo_files, build_meta_link and collect_args.                  *)
(*                                                                         *)
(* One request is one behaviour.  The dataset (CFDataset), the computation *)
(* (create_climo_files) and the working directory are collaborators: what  *)
(* they answer is chosen when the handler calls them.                      *)
(***************************************************************************)
EXTENDS Integers, Sequences, FiniteSets, Bags, TLC

----------------------------------------------------------------------------
(* Bounds of the model *)

\* At most this many files are written by one create_climo_files call.
MaxWritten == 1

\* On a dataset whose catalog is not the full list of periods at most this
\* many of the lookups of dry_run_info raise; on the full catalog any may.
MaxFailingPartial == 0

\* The processing options are passed through unchanged: they vary on the
\* requests of at most this many periods and are the defaults on the rest.
MaxOptionPeriods == 1

----------------------------------------------------------------------------
(* Values of the program *)

\* allowed_values of the "climo" input
Periods == {"6190", "7100", "8100", "2020", "2050", "2080"}

\* allowed_values of the "operation" input
Operations == {"mean", "std"}

\* allowed_values of the "resolutions" input
Resolutions == {"yearly", "seasonal", "monthy"}

\* the attributes dry_run_info reads from input_file.metadata, in order
MetadataAttrs == <<"project", "institution", "model", "emissions", "run">>

\* the attributes dry_run_info reads from input_file itself, in order
DatasetAttrs == <<"time_resolution", "is_multi_year_mean">>

\* every lookup of dry_run_info that can raise once the dataset is open
AllLookups ==
    {MetadataAttrs[i] : i \in 1..Len(MetadataAttrs)}
        \cup {"dependent_varnames"}
        \cup {DatasetAttrs[i] : i \in 1..Len(DatasetAttrs)}

\* the time range the dataset's catalog gives a period: (start, end)
TimeRange(p) ==
    CASE p = "6190" -> <<1961, 1990>>
      [] p = "7100" -> <<1971, 2000>>
      [] p = "8100" -> <<1981, 2010>>
      [] p = "2020" -> <<2010, 2039>>
      [] p = "2050" -> <<2040, 2069>>
      [] p = "2080" -> <<2070, 2099>>

\* input_file.climo_periods of a dataset offering the periods avail
ClimoPeriods(avail) == [p \in avail |-> TimeRange(p)]

----------------------------------------------------------------------------
(* Numbers: progress is an int until progress_increment, the quotient of a *)
(* true division, is added to it.  Values are kept as fractions <<n, d>>   *)
(* in lowest terms, d > 0.  For 1 to 6 matched periods every quotient is a *)
(* multiple of 1/2, which binary floating point holds exactly.             *)

RECURSIVE Gcd(_, _)
Gcd(a, b) == IF b = 0 THEN a ELSE Gcd(b, a % b)

Abs(a) == IF a < 0 THEN -a ELSE a

Norm(n, d) ==
    LET g == Gcd(Abs(n), d) IN
    IF g = 0 THEN <<0, 1>> ELSE <<n \div g, d \div g>>

Num(k) == <<k, 1>>

RatAdd(x, y) == Norm(x[1] * y[2] + y[1] * x[2], x[2] * y[2])

RatLess(x, y) == x[1] * y[2] < y[1] * x[2]

RatLeq(x, y) == x[1] * y[2] <= y[1] * x[2]

\* a // b, the floor division, where a / b was meant
FloorDiv(a, b) == <<a \div b, 1>>

\* a / b of Python for ints a, b with b > 0
TrueDiv(a, b) == Norm(a, b)

----------------------------------------------------------------------------
(* Text: a line of the dry-run report is the sequence of the pieces its    *)
(* f-string joins; a file name is the sequence of its characters.          *)

\* suffix in s, where s.endswith(suffix) was meant
Contains(s, suffix) ==
    \E i \in 1..(Len(s) - Len(suffix) + 1) : SubSeq(s, i, i + Len(suffix) - 1) = suffix

EndsWith(s, suffix) ==
    /\ Len(s) >= Len(suffix)
    /\ SubSeq(s, Len(s) - Len(suffix) + 1, Len(s)) = suffix

DotNc == <<".", "n", "c">>

\* the names create_climo_files may leave in the working directory
FileNames ==
    { <<"a", ".", "n", "c">>,
      <<"b", ".", "n", "c">>,
      <<"a", ".", "n", "c", ".", "t", "m", "p">> }

\* every order in which os.listdir may return the names of S
Orderings(S) ==
    {s \in [1..Cardinality(S) -> S] : \A i, j \in 1..Cardinality(S) : s[i] = s[j] => i = j}

RECURSIVE Str(_)
\* str(n) of a non-negative int: its decimal digits
Str(n) ==
    LET digit(k) == CASE k = 0 -> "0" [] k = 1 -> "1" [] k = 2 -> "2" [] k = 3 -> "3"
                      [] k = 4 -> "4" [] k = 5 -> "5" [] k = 6 -> "6" [] k = 7 -> "7"
                      [] k = 8 -> "8" [] k = 9 -> "9"
    IN  IF n < 10 THEN <<digit(n)>> ELSE Str(n \div 10) \o <<digit(n % 10)>>

----------------------------------------------------------------------------
(* The request and what the collaborators may answer *)

\* the dataset input's url
Urls == {"x"}

\* exceptions CFDataset(filepath) may raise
OpenErrors ==
    { [kind |-> "FileNotFoundError", message |-> "x"],
      [kind |-> "OSError", message |-> "unreadable"] }

\* the exception a failing attribute lookup raises
AttrError == [kind |-> "AttributeError", message |-> "missing"]

\* the exception a failing catalog lookup or computation raises
LookupError == [kind |-> "KeyError", message |-> "period"]
ComputeError == [kind |-> "Exception", message |-> "compute"]
DivisionError == [kind |-> "ZeroDivisionError", message |-> "division by zero"]

NoError == [kind |-> "", message |-> ""]

\* the defaults of convert_longitudes, split_vars and split_intervals
DefaultOptions ==
    [operation |-> "mean", resolutions |-> {"yearly"},
     convert_longitudes |-> TRUE, split_vars |-> TRUE, split_intervals |-> TRUE]

\* the processing options a request carries besides climo and dry_run
Options ==
    { DefaultOptions,
      [operation |-> "std", resolutions |-> {"seasonal", "monthy"},
       convert_longitudes |-> FALSE, split_vars |-> TRUE, split_intervals |-> FALSE],
      [operation |-> "std", resolutions |-> {"yearly", "seasonal", "monthy"},
       convert_longitudes |-> TRUE, split_vars |-> FALSE, split_intervals |-> TRUE] }

\* request.inputs: climo has min_occurs=1, max_occurs=6
Requests ==
    { r \in [climo : (SUBSET Periods) \ {{}}, dry_run : BOOLEAN, url : Urls,
             options : Options] :
        r.options = DefaultOptions \/ Cardinality(r.climo) <= MaxOptionPeriods }

\* what a dataset answers: whether it opens, the periods of its catalog and
\* the lookups of dry_run_info that raise
Datasets ==
    { d \in [opens : {TRUE}, error : {NoError}, avail : SUBSET Periods,
             failing : SUBSET AllLookups] :
        d.avail = Periods \/ Cardinality(d.failing) <= MaxFailingPartial }
    \cup
    { [opens |-> FALSE, error |-> e, avail |-> {}, failing |-> {}] : e \in OpenErrors }

\* before the handler has met the dataset
NoAnswer == [opens |-> FALSE, error |-> NoError, avail |-> {}, failing |-> {}]

\* the sets of files one create_climo_files call may write
Writes == {w \in SUBSET FileNames : Cardinality(w) <= MaxWritten}

\* str() of the value a lookup that succeeds returns
AttrValue(attr) ==
    CASE attr = "project" -> "CMIP5"
      [] attr = "institution" -> "PCIC"
      [] attr = "model" -> "GFDL-ESM2G"
      [] attr = "emissions" -> "historical,rcp26"
      [] attr = "run" -> "r1i1p1"
      [] attr = "dependent_varnames" -> "['tasmax']"
      [] attr = "time_resolution" -> "daily"
      [] attr = "is_multi_year_mean" -> "False"

----------------------------------------------------------------------------
\* input_file.climo_periods.keys(), the request's periods forgotten
CatalogPeriods(climo_periods, climo) == DOMAIN climo_periods

\* input_file.climo_periods.keys() & climo
MatchedPeriods(climo_periods, climo) == (DOMAIN climo_periods) \cap climo

(* dry_run_info: the report is the sequence of its lines; a line holds the *)
(* pieces its f-string joins, and the period set it prints, if any.        *)

Line(pieces) == [text |-> pieces, periods |-> {}]

PeriodsLine(periods) == [text |-> <<"climo_periods: ">>, periods |-> periods]

\* f"{e}" where f"{e.__class__.__name__}: {e}" was meant
ErrorTextMessageOnly(e) == <<e.message>>

ErrorText(e) == <<e.kind, ": ", e.message>>

\* the except clause of line 138 without the attribute's name
MetadataLineUnlabelled(attr, ds) ==
    IF attr \in ds.failing
    THEN Line(ErrorText(AttrError))
    ELSE Line(<<attr, ": ", AttrValue(attr)>>)

\* the line of one input_file.metadata attribute, inside its try/except
MetadataLine(attr, ds) ==
    IF attr \in ds.failing
    THEN Line(<<attr, ": ">> \o ErrorText(AttrError))
    ELSE Line(<<attr, ": ", AttrValue(attr)>>)

\* the lines of the unguarded lookups up to the first that raises
RECURSIVE PlainLines(_, _)
PlainLines(attrs, ds) ==
    IF attrs = <<>> \/ Head(attrs) \in ds.failing
    THEN <<>>
    ELSE <<Line(<<Head(attrs), ": ", AttrValue(Head(attrs))>>)>> \o PlainLines(Tail(attrs), ds)

UnguardedAttrs == <<"dependent_varnames">> \o DatasetAttrs

\* [raised, error, report]: report is what is returned when nothing is raised
dry_run_info(filepath, climo, ds) ==
    LET head == <<Line(<<"Dry Run">>), Line(<<"File: ", filepath>>)>>
        periods == MatchedPeriods(ClimoPeriods(ds.avail), climo)
        guarded == [i \in 1..Len(MetadataAttrs) |-> MetadataLine(MetadataAttrs[i], ds)]
        plain == PlainLines(UnguardedAttrs, ds)
    IN  IF ~ds.opens
        THEN [raised |-> FALSE, error |-> NoError,
              report |-> head \o <<Line(ErrorText(ds.error))>>]
        ELSE IF Len(plain) < Len(UnguardedAttrs)
        THEN [raised |-> TRUE, error |-> AttrError, report |-> <<>>]
        ELSE [raised |-> FALSE, error |-> NoError,
              report |-> head \o <<PeriodsLine(periods)>> \o guarded \o plain]

----------------------------------------------------------------------------
(* collect_climo_files and build_meta_link *)

\* the names of listing, in its order, that end with '.nc'
collect_climo_files(listing) == SelectSeq(listing, LAMBDA file : EndsWith(file, DotNc))

Workdir == "workdir"

MetaFile(file) ==
    [identity |-> file, title |-> "Climatology", fmt |-> "NETCDF", file |-> <<Workdir, file>>]

\* the entries of the MetaLink4 document, in order
build_meta_link(climo_files) == [i \in 1..Len(climo_files) |-> MetaFile(climo_files[i])]

----------------------------------------------------------------------------
(* collect_args *)

\* collect_args with dry_run and split_intervals in each other's place
collect_args_swapped(req) ==
    [climo |-> req.climo,
     resolutions |-> req.options.resolutions,
     convert_longitudes |-> req.options.convert_longitudes,
     split_vars |-> req.options.split_vars,
     split_intervals |-> req.dry_run,
     dry_run |-> req.options.split_intervals,
     operation |-> req.options.operation]

NoArgs ==
    [climo |-> {}, resolutions |-> {}, convert_longitudes |-> FALSE, split_vars |-> FALSE,
     split_intervals |-> FALSE, dry_run |-> FALSE, operation |-> ""]

collect_args(req) ==
    [climo |-> req.climo,
     resolutions |-> req.options.resolutions,
     convert_longitudes |-> req.options.convert_longitudes,
     split_vars |-> req.options.split_vars,
     split_intervals |-> req.options.split_intervals,
     dry_run |-> req.dry_run,
     operation |-> req.options.operation]

----------------------------------------------------------------------------
(* State of one request *)

VARIABLES
    request,            \* the inputs of the request
    dataset,            \* what the dataset at request.url answered, once asked
    pc,                 \* where _handler is
    args,               \* what collect_args returned
    progress,           \* the local progress
    input_file,         \* the CFDataset handle
    total_files,
    remaining_files,
    progress_increment,
    todo,               \* the periods the loop has not visited yet
    events,             \* what the handler did to its collaborators, in order
    calls,              \* the create_climo_files calls made, as a bag
    workdir,            \* the file names in self.workdir
    outputs,            \* response.outputs
    error               \* the exception that left _handler, if any

vars ==
    <<request, dataset, pc, args, progress, input_file, total_files, remaining_files,
      progress_increment, todo, events, calls, workdir, outputs, error>>

NoPercent == <<>>

\* response.update_status(message, percentage)
Status(message, percentage) ==
    [kind |-> "update_status", message |-> message, percentage |-> percentage]

\* an assignment to the local progress: the statement and the value it leaves
Assigned(statement, value) ==
    [kind |-> "assign", message |-> <<statement>>, percentage |-> value]

\* any other call the handler makes
Did(what) == [kind |-> what, message |-> <<>>, percentage |-> NoPercent]

Unset == [set |-> FALSE, data |-> <<>>]

Data(d) == [set |-> TRUE, data |-> d]

NoDataset == [opened |-> FALSE, climo_periods |-> <<>>]

\* del d[key] left out
DelNothing(d, key) == d

\* del d[key]
Del(d, key) == [k \in (DOMAIN d) \ {key} |-> d[k]]

locals == <<input_file, total_files, remaining_files, progress_increment, todo>>

Init ==
    /\ request \in Requests
    /\ dataset = NoAnswer
    /\ pc = "ready"
    /\ args = NoArgs
    /\ progress = Num(0)
    /\ input_file = NoDataset
    /\ total_files = 0
    /\ remaining_files = 0
    /\ progress_increment = Num(0)
    /\ todo = {}
    /\ events = <<>>
    /\ calls = EmptyBag
    /\ workdir = {}
    /\ outputs = [k \in {"output", "dry_output"} |-> Unset]
    /\ error = NoError

\* lines 171-178
HandlerStart ==
    /\ pc = "ready"
    /\ progress' = Num(0)
    /\ events' = events \o <<Assigned("progress = 0", Num(0)),
                             Status(<<"Starting Process">>, Num(0))>>
    /\ args' = collect_args(request)
    /\ pc' = "branch"
    /\ UNCHANGED <<request, dataset, locals, calls, workdir, outputs, error>>

\* lines 180-182
DryRun ==
    /\ pc = "branch"
    /\ args.dry_run
    /\ \E ds \in Datasets :
        LET info == dry_run_info(request.url, args.climo, ds)
            deleted == Del(outputs, "output")
        IN  /\ dataset' = ds
            /\ IF info.raised
               THEN /\ outputs' = deleted
                    /\ error' = info.error
                    /\ pc' = "failed"
               ELSE /\ outputs' = [deleted EXCEPT !["dry_output"] = Data(info.report)]
                    /\ error' = error
                    /\ pc' = "finish"
    /\ events' = Append(events, Did("dry_run_info"))
    /\ UNCHANGED <<request, args, progress, locals, calls, workdir>>

\* line 193 without the per-unit step: (95 - progress) / total_files
IncrementWithoutUnitStep(p, n) == TrueDiv(95 * p[2] - p[1], n * p[2])

\* line 193: (95 - progress - total_files) / total_files, total_files > 0
Increment(p, n) == TrueDiv(95 * p[2] - p[1] - n * p[2], n * p[2])

\* lines 185-193
OpenDataset ==
    /\ pc = "branch"
    /\ ~args.dry_run
    /\ outputs' = Del(outputs, "dry_output")
    /\ \E ds \in {d \in Datasets : d.failing = {}} :
        LET said == Append(events, Status(<<"Processing ", request.url>>, NoPercent))
            matched == MatchedPeriods(ClimoPeriods(ds.avail), args.climo)
            n == Cardinality(matched)
        IN  /\ dataset' = ds
            /\ IF ~ds.opens
               THEN /\ events' = said
                    /\ error' = ds.error
                    /\ pc' = "failed"
                    /\ UNCHANGED <<progress, locals>>
               ELSE /\ input_file' = [opened |-> TRUE, climo_periods |-> ClimoPeriods(ds.avail)]
                    /\ progress' = RatAdd(progress, Num(5))
                    /\ events' = Append(said, Assigned("progress += 5", progress'))
                    /\ total_files' = n
                    /\ remaining_files' = n
                    /\ IF n = 0
                       THEN /\ error' = DivisionError
                            /\ pc' = "failed"
                            /\ UNCHANGED <<progress_increment, todo>>
                       ELSE /\ progress_increment' = Increment(progress', n)
                            /\ todo' = matched
                            /\ error' = error
                            /\ pc' = "loop"
    /\ UNCHANGED <<request, args, calls, workdir>>

\* the call of lines 200-208 for a period whose time range is t_range
Call(t_range) ==
    [workdir |-> Workdir,
     dataset |-> input_file,
     operation |-> args.operation,
     t_start |-> t_range[1],
     t_end |-> t_range[2],
     convert_longitudes |-> args.convert_longitudes,
     split_vars |-> args.split_vars,
     output_resolutions |-> args.resolutions]

\* line 197 counting the units up: f'Processing file {done + 1}/{total_files}'
ProcessingMessageCountingUp(remaining, total) ==
    <<"Processing file ">> \o Str(total - remaining + 1) \o <<"/">> \o Str(total)

\* line 197: f'Processing file {remaining_files}/{total_files}'
ProcessingMessage(remaining, total) ==
    <<"Processing file ">> \o Str(remaining) \o <<"/">> \o Str(total)

\* line 212 ahead of line 210: the report made before progress += progress_increment
ClimoFileCreatedEarly(before, after) == Status(<<"Climo file created">>, before)

\* line 212, before and after being progress on either side of line 210
ClimoFileCreated(before, after) == Status(<<"Climo file created">>, after)

\* lines 195-212: one turn of the loop
ProcessPeriod ==
    /\ pc = "loop"
    /\ todo # {}
    /\ \E period \in todo :
        LET before == RatAdd(progress, Num(1))
            said == events \o <<Assigned("progress += 1", before),
                                 Status(ProcessingMessage(remaining_files, total_files),
                                        before)>>
            t_range == input_file.climo_periods[period]
            called == Append(said, Did("create_climo_files"))
            after == RatAdd(before, progress_increment)
        IN  \/ \* input_file.climo_periods[period] raises
               /\ progress' = before
               /\ events' = said
               /\ error' = LookupError
               /\ pc' = "failed"
               /\ UNCHANGED <<remaining_files, todo, calls, workdir>>
            \/ \* create_climo_files raises
               /\ \E written \in Writes : workdir' = workdir \cup written
               /\ progress' = before
               /\ events' = called
               /\ calls' = calls (+) SetToBag({Call(t_range)})
               /\ error' = ComputeError
               /\ pc' = "failed"
               /\ UNCHANGED <<remaining_files, todo>>
            \/ \* create_climo_files returns
               /\ \E written \in Writes : workdir' = workdir \cup written
               /\ calls' = calls (+) SetToBag({Call(t_range)})
               /\ progress' = after
               /\ remaining_files' = remaining_files - 1
               /\ events' = called \o <<Assigned("progress += progress_increment", after),
                                        ClimoFileCreated(before, after)>>
               /\ todo' = todo \ {period}
               /\ UNCHANGED <<pc, error>>
    /\ UNCHANGED <<request, dataset, args, input_file, total_files, progress_increment,
                   outputs>>

\* lines 214-218 inside the loop: run whether or not periods are left
CollectOutputsEarly ==
    /\ pc = "loop"
    /\ \E listing \in Orderings(workdir) :
        LET climo_files == collect_climo_files(listing) IN
        /\ events' = events \o <<Did("collect_climo_files"),
                                 Status(<<"Collecting output files">>, progress),
                                 Did("build_meta_link")>>
        /\ outputs' = [outputs EXCEPT !["output"] = Data(build_meta_link(climo_files))]
    /\ pc' = "finish"
    /\ UNCHANGED <<request, dataset, args, progress, locals, calls, workdir, error>>

\* lines 214-218
CollectOutputs ==
    /\ pc = "loop"
    /\ todo = {}
    /\ \E listing \in Orderings(workdir) :
        LET climo_files == collect_climo_files(listing) IN
        /\ events' = events \o <<Did("collect_climo_files"),
                                 Status(<<"Collecting output files">>, progress),
                                 Did("build_meta_link")>>
        /\ outputs' = [outputs EXCEPT !["output"] = Data(build_meta_link(climo_files))]
    /\ pc' = "finish"
    /\ UNCHANGED <<request, dataset, args, progress, locals, calls, workdir, error>>

\* line 220 as the finally clause of a try around the branches
CompleteAlways ==
    /\ pc \in {"finish", "failed"}
    /\ events' = Append(events, Status(<<"Completed process">>, Num(100)))
    /\ pc' = "done"
    /\ UNCHANGED <<request, dataset, args, progress, locals, calls, workdir, outputs,
                   error>>

\* line 220
Complete ==
    /\ pc = "finish"
    /\ events' = Append(events, Status(<<"Completed process">>, Num(100)))
    /\ pc' = "done"
    /\ UNCHANGED <<request, dataset, args, progress, locals, calls, workdir, outputs,
                   error>>

Next ==
    \/ HandlerStart
    \/ DryRun
    \/ OpenDataset
    \/ ProcessPeriod
    \/ CollectOutputs
    \/ Complete

Spec == Init /\ [][Next]_vars

----------------------------------------------------------------------------
(* What the response transport saw *)

\* the update_status calls, in order
Statuses == SelectSeq(events, LAMBDA e : e.kind = "update_status")

\* the update_status calls that passed a percentage, in order
Reported == SelectSeq(Statuses, LAMBDA e : e.percentage # NoPercent)

\* the percentages passed to update_status, in order
Percentages == [i \in 1..Len(Reported) |-> Reported[i].percentage]

Happened(what) == \E i \in 1..Len(events) : events[i].kind = what

CompletedReported ==
    \E i \in 1..Len(Statuses) : Statuses[i].message = <<"Completed process">>

OutputSet(key) == key \in DOMAIN outputs /\ outputs[key].set

\* the handler has branched on dry_run
Branched == pc \notin {"ready", "branch"}

----------------------------------------------------------------------------
(* Claims *)

\* C1: in every run of _handler, dry-run or not, the percentages passed to
\* response.update_status never decrease from one report to the next, and a
\* request that completes has reported exactly 100 last.
C1_ProgressNeverDecreases ==
    LET p == Percentages
    IN
        /\ \A i \in 1..(Len(p) - 1) : RatLeq(p[i], p[i + 1])
        /\ pc = "done" =>
            /\ Len(p) > 0
            /\ p[Len(p)] = <<100, 1>>

\* C1 witness: a request over four matched periods has completed, having
\* reported the half-step values of its schedule.
C1_Witness ==
    /\ pc = "done"
    /\ ~request.dry_run
    /\ total_files = 4
    /\ \E i \in 1..Len(Percentages) : Percentages[i] = <<55, 2>>

\* C2 as stated: for a non-dry-run request whose periods intersect the
\* catalog, every reported percentage is strictly greater than the one before
\* it and the last one is exactly 100.
C2_StrictlyIncreasing ==
    (/\ pc = "done"
     /\ ~request.dry_run
     /\ request.climo \cap dataset.avail # {})
    => /\ \A i \in 1..(Len(Percentages) - 1) : RatLess(Percentages[i], Percentages[i + 1])
       /\ Percentages[Len(Percentages)] = <<100, 1>>

\* C2 as amended: for a non-dry-run request whose periods intersect the
\* catalog, every reported percentage is strictly greater than the one before
\* it, except that the 'Collecting output files' report repeats the percentage
\* of the 'Climo file created' report before it; the last one is exactly 100.
C2_StrictlyIncreasingButCollecting ==
    LET r == Reported
    IN
        (/\ Branched
         /\ ~request.dry_run
         /\ request.climo \cap dataset.avail # {})
        => /\ \A i \in 1..(Len(r) - 1) :
                IF r[i + 1].message = <<"Collecting output files">>
                THEN /\ r[i].message = <<"Climo file created">>
                     /\ r[i + 1].percentage = r[i].percentage
                ELSE RatLess(r[i].percentage, r[i + 1].percentage)
           /\ pc = "done" => r[Len(r)].percentage = <<100, 1>>

\* C2 witness: a non-dry-run request over three matched periods has completed.
C2_Witness ==
    /\ pc = "done"
    /\ ~request.dry_run
    /\ Cardinality(request.climo \cap dataset.avail) = 3
    /\ Len(Reported) = 9

\* C3: for a non-dry-run request whose periods have an empty intersection with
\* the catalog of a dataset that opened, the handler raises no arithmetic
\* fault, makes no create_climo_files call, and does not fail: it is on its
\* way to reporting 100 with the manifest output set.
C3_EmptyIntersectionCompletes ==
    (/\ Branched
     /\ ~request.dry_run
     /\ dataset.opens
     /\ request.climo \cap dataset.avail = {})
    => /\ error # DivisionError
       /\ calls = EmptyBag
       /\ pc # "failed"
       /\ pc = "done" => OutputSet("output") /\ Percentages[Len(Percentages)] = <<100, 1>>

\* C4: when dry_run is true the handler never calls create_climo_files, never
\* scans the working directory or builds a manifest, and never sets 'output'.
C4_DryRunComputesNothing ==
    request.dry_run =>
        /\ calls = EmptyBag
        /\ ~Happened("create_climo_files")
        /\ ~Happened("collect_climo_files")
        /\ ~Happened("build_meta_link")
        /\ ~OutputSet("output")
        /\ workdir = {}

\* C4 witness: a dry run over a dataset that opened has completed.
C4_Witness ==
    /\ request.dry_run
    /\ dataset.opens
    /\ pc = "done"

\* C5: when the final 'Completed process' update is issued exactly one of the
\* two outputs is present and set: dry_output with the report when dry_run is
\* true, output with the manifest when it is false; the other was removed.
C5_ExactlyOneOutput ==
    CompletedReported =>
        IF request.dry_run
        THEN /\ DOMAIN outputs = {"dry_output"}
             /\ outputs["dry_output"].set
             /\ Len(outputs["dry_output"].data) >= 3
             /\ outputs["dry_output"].data[1].text = <<"Dry Run">>
        ELSE /\ DOMAIN outputs = {"output"}
             /\ outputs["output"].set
             /\ \A i \in 1..Len(outputs["output"].data) :
                    outputs["output"].data[i].title = "Climatology"

\* C5 witness: both kinds of request can complete; this one is a processing
\* request whose manifest has two entries.
C5_Witness ==
    /\ CompletedReported
    /\ ~request.dry_run
    /\ Len(outputs["output"].data) = 2

\* the call C6 expects for period p: the working directory, the open dataset,
\* the request's options and the time range the catalog gives p
ExpectedCall(p) ==
    [workdir |-> "workdir",
     dataset |-> [opened |-> TRUE, climo_periods |-> [q \in dataset.avail |-> TimeRange(q)]],
     operation |-> request.options.operation,
     t_start |-> TimeRange(p)[1],
     t_end |-> TimeRange(p)[2],
     convert_longitudes |-> request.options.convert_longitudes,
     split_vars |-> request.options.split_vars,
     output_resolutions |-> request.options.resolutions]

\* C6: in a non-dry-run request create_climo_files is never called for a
\* period outside (requested periods /\ catalog periods) nor twice for one
\* period, each call carries that period's time range from the catalog, and
\* when the request completes there is exactly one call for each period of the
\* intersection, as many calls as the intersection has periods.
C6_OneCallPerMatchedPeriod ==
    (Branched /\ ~request.dry_run) =>
        LET matched == request.climo \cap dataset.avail
            expected == {ExpectedCall(p) : p \in matched}
        IN  /\ \A c \in BagToSet(calls) : c \in expected /\ CopiesIn(c, calls) = 1
            /\ pc = "done" =>
                /\ calls = SetToBag(expected)
                /\ BagCardinality(calls) = Cardinality(matched)

\* C6 witness: the request has completed with two matched periods, one
\* requested period the catalog lacks and one catalog period not requested.
C6_Witness ==
    /\ pc = "done"
    /\ ~request.dry_run
    /\ Cardinality(request.climo \cap dataset.avail) = 2
    /\ request.climo \ dataset.avail # {}
    /\ dataset.avail \ request.climo # {}
    /\ BagCardinality(calls) = 2

\* C7: on the non-dry-run path, once opening the dataset, looking up a
\* period's time range or a create_climo_files call has failed, the request
\* has aborted: the handler takes no further step (no further period, no
\* retry), no period has been computed twice, 'output' is not set and
\* 'Completed process' has not been reported.
C7_FailureAborts ==
    (/\ Branched
     /\ ~request.dry_run
     /\ error \in OpenErrors \cup {LookupError, ComputeError})
    => /\ pc = "failed"
       /\ ~ENABLED Next
       /\ \A c \in BagToSet(calls) : CopiesIn(c, calls) = 1
       /\ ~OutputSet("output")
       /\ ~CompletedReported
       /\ \A i \in 1..Len(Percentages) : Percentages[i] # <<100, 1>>

\* C7 witness: the second create_climo_files call of a request over three
\* matched periods has failed.
C7_Witness ==
    /\ pc = "failed"
    /\ error = ComputeError
    /\ total_files = 3
    /\ BagCardinality(calls) = 2
    /\ Cardinality(todo) = 2

\* the report the handler has put in dry_output
Report == outputs["dry_output"].data

\* C8: in dry-run mode, when opening the dataset fails, the report ends with
\* the line '<ErrorKind>: <message>' right after its two heading lines, with no
\* climo_periods or attribute line; the request does not abort: dry_output is
\* set to the report and the request completes at progress 100.
C8_DryRunOpenFailureReported ==
    (/\ Branched
     /\ request.dry_run
     /\ ~dataset.opens)
    => /\ pc \in {"finish", "done"}
       /\ error = NoError
       /\ OutputSet("dry_output")
       /\ Report =
            << [text |-> <<"Dry Run">>, periods |-> {}],
               [text |-> <<"File: ", request.url>>, periods |-> {}],
               [text |-> <<dataset.error.kind, ": ", dataset.error.message>>, periods |-> {}] >>
       /\ pc = "done" => Percentages[Len(Percentages)] = <<100, 1>>

\* C8 witness: the dry run of a dataset whose opening raised
\* FileNotFoundError("x") has completed.
C8_Witness ==
    /\ pc = "done"
    /\ request.dry_run
    /\ ~dataset.opens
    /\ dataset.error = [kind |-> "FileNotFoundError", message |-> "x"]

\* the attributes of the report, in the order of their lines
ReportAttrs ==
    <<"project", "institution", "model", "emissions", "run",
      "dependent_varnames", "time_resolution", "is_multi_year_mean">>

\* the line C9 expects for an attribute
ExpectedAttrLine(attr) ==
    IF attr \in dataset.failing
    THEN [text |-> <<attr, ": ", "AttributeError", ": ", "missing">>, periods |-> {}]
    ELSE [text |-> <<attr, ": ", AttrValue(attr)>>, periods |-> {}]

\* the report has, after its three leading lines, exactly the expected line
\* of each attribute, in order
OneLinePerAttribute ==
    /\ OutputSet("dry_output")
    /\ Len(Report) = 3 + Len(ReportAttrs)
    /\ \A i \in 1..Len(ReportAttrs) : Report[3 + i] = ExpectedAttrLine(ReportAttrs[i])
    /\ \A i \in 1..Len(ReportAttrs) :
            Cardinality({j \in 1..Len(Report) : Report[j].text[1] = ReportAttrs[i]}) = 1

\* C9 as stated: in dry-run mode with a dataset that opens, whichever subset
\* of the eight attribute lookups fails, the request does not abort and the
\* report has exactly one line per attribute, '<attr>: <ErrorKind>: <message>'
\* for each that failed.
C9_EveryLookupGuarded ==
    (/\ Branched
     /\ request.dry_run
     /\ dataset.opens)
    => /\ pc \in {"finish", "done"}
       /\ OneLinePerAttribute

\* C9 as amended: in dry-run mode with a dataset that opens, a failure reading
\* project, institution, model, emissions or run is captured as the line
\* '<attr>: <ErrorKind>: <message>' and the remaining lookups are performed; a
\* failure reading dependent_varnames, time_resolution or is_multi_year_mean
\* aborts the request, with dry_output unset and no 100 reported.  When those
\* three succeed the report has exactly one line per attribute, whichever
\* subset of the five fails.
C9_MetadataLookupsGuarded ==
    (/\ Branched
     /\ request.dry_run
     /\ dataset.opens)
    => IF dataset.failing \cap {"dependent_varnames", "time_resolution", "is_multi_year_mean"} = {}
       THEN /\ pc \in {"finish", "done"}
            /\ error = NoError
            /\ OneLinePerAttribute
       ELSE /\ pc = "failed"
            /\ error = [kind |-> "AttributeError", message |-> "missing"]
            /\ ~OutputSet("dry_output")
            /\ ~CompletedReported

\* C9 witness: a dry run has completed whose report holds the failures of
\* institution and run next to the values of the other attributes.
C9_Witness ==
    /\ pc = "done"
    /\ request.dry_run
    /\ dataset.opens
    /\ dataset.failing = {"institution", "run"}
    /\ Report[5].text = <<"institution", ": ", "AttributeError", ": ", "missing">>
    /\ Report[6].text = <<"model", ": ", "GFDL-ESM2G">>

\* the file names of FileNames that end with '.nc'
NcNames == { <<"a", ".", "n", "c">>, <<"b", ".", "n", "c">> }

\* the manifest the handler has put in output
Manifest == outputs["output"].data

\* C10: the manifest of a non-dry-run request has exactly one entry for each
\* file of the working directory whose name ends with '.nc', located in the
\* working directory, and no entry for any other file; it is empty when there
\* is no such file.
C10_ManifestListsNcFiles ==
    (/\ Branched
     /\ ~request.dry_run
     /\ pc \in {"finish", "done"})
    => /\ OutputSet("output")
       /\ \A f \in FileNames :
            Cardinality({i \in 1..Len(Manifest) : Manifest[i].identity = f})
                = IF f \in workdir \cap NcNames THEN 1 ELSE 0
       /\ \A i \in 1..Len(Manifest) :
            /\ Manifest[i].identity \in workdir
            /\ Manifest[i].file = <<"workdir", Manifest[i].identity>>
       /\ Len(Manifest) = Cardinality(workdir \cap NcNames)

\* C10 witness: the scan met both '.nc' files and the '.nc.tmp' file.
C10_Witness ==
    /\ pc = "done"
    /\ ~request.dry_run
    /\ workdir = FileNames
    /\ Len(Manifest) = 2

\* C10 witness of the empty case: the scan met no '.nc' file.
C10_WitnessEmpty ==
    /\ pc = "done"
    /\ ~request.dry_run
    /\ workdir = { <<"a", ".", "n", "c", ".", "t", "m", "p">> }
    /\ Manifest = <<>>

\* the arguments of a call other than split_intervals: the working directory,
\* the dataset handle, the operation, a time range of the catalog, the
\* resolutions, convert_longitudes and split_vars, as collect_args gave them
CarriesPassedArguments(c) ==
    /\ c.workdir = "workdir"
    /\ c.dataset = [opened |-> TRUE, climo_periods |-> [q \in dataset.avail |-> TimeRange(q)]]
    /\ c.operation = request.options.operation
    /\ \E p \in request.climo \cap dataset.avail :
            c.t_start = TimeRange(p)[1] /\ c.t_end = TimeRange(p)[2]
    /\ c.output_resolutions = request.options.resolutions
    /\ c.convert_longitudes = request.options.convert_longitudes
    /\ c.split_vars = request.options.split_vars

\* C11: every create_climo_files call of the loop carries the working
\* directory, the dataset handle, the operation, the period's time range, the
\* resolutions and all three flags of the request (convert_longitudes,
\* split_vars and split_intervals), each with the value of collect_args.
C11_CallCarriesAllArguments ==
    (Branched /\ ~request.dry_run) =>
        \A c \in BagToSet(calls) :
            /\ CarriesPassedArguments(c)
            /\ "split_intervals" \in DOMAIN c
            /\ c.split_intervals = request.options.split_intervals

\* C11, the part the code keeps: every call carries every argument of the
\* claim but split_intervals.
C11_CallCarriesPassedArguments ==
    (Branched /\ ~request.dry_run) =>
        \A c \in BagToSet(calls) : CarriesPassedArguments(c)

\* the number of loop turns that have ended
UnitsDone == total_files - Cardinality(todo)

\* 5 + k * 90 / n, as a fraction in lowest terms
ScheduleAfter(k, n) == Norm(5 * n + 90 * k, n)

\* the 'Collecting output files' reports made
CollectingReports ==
    SelectSeq(Statuses, LAMBDA e : e.message = <<"Collecting output files">>)

\* the 'Climo file created' reports made
CreatedReports ==
    SelectSeq(Statuses, LAMBDA e : e.message = <<"Climo file created">>)

\* C12: for every matched-period count n from 1 to 6 the loop starts at the
\* baseline 5, each unit advances progress by 90/n in all, 1 before the
\* create_climo_files call and (90 - n)/n after it, and the value after the
\* last unit, which 'Collecting output files' reports, is exactly 95.
C12_ProgressSchedule ==
    LET created == CreatedReports
        collecting == CollectingReports
    IN
        (/\ Branched
         /\ ~request.dry_run
         /\ total_files \in 1..6)
        => /\ progress_increment = Norm(90 - total_files, total_files)
           /\ pc \in {"loop", "finish", "done"} =>
                progress = ScheduleAfter(UnitsDone, total_files)
           /\ pc = "failed" =>
                progress = RatAdd(ScheduleAfter(UnitsDone, total_files), <<1, 1>>)
           /\ \A i \in 1..Len(created) :
                created[i].percentage = ScheduleAfter(i, total_files)
           /\ pc \in {"finish", "done"} =>
                /\ progress = <<95, 1>>
                /\ Len(created) = total_files
                /\ Len(collecting) = 1
                /\ collecting[1].percentage = <<95, 1>>

\* C12 witness: a request over four matched periods, whose steps are 1 and
\* 21.5, has ended its first unit at 27.5 and its last at 95, which it has
\* reported with 'Collecting output files'.
C12_Witness ==
    /\ ~request.dry_run
    /\ total_files = 4
    /\ pc = "done"
    /\ CreatedReports[1].percentage = <<55, 2>>
    /\ CreatedReports[4].percentage = <<95, 1>>
    /\ CollectingReports[1].percentage = <<95, 1>>

\* the assignments to progress and the update_status calls, in order
ProgressEvents == SelectSeq(events, LAMBDA e : e.kind \in {"assign", "update_status"})

\* the value assigned at position i of pe, the assignments and reports in
\* order, was passed to update_status before the next assignment, if any
ReportedBeforeOverwritten(pe, i) ==
    \A j \in (i + 1)..Len(pe) :
        pe[j].kind = "assign" =>
            \E k \in (i + 1)..(j - 1) :
                /\ pe[k].kind = "update_status"
                /\ pe[k].percentage = pe[i].percentage

\* C13 as stated: no value progress takes, the baseline 5 included, is
\* overwritten without having been passed to response.update_status.
C13_EveryValueReported ==
    LET pe == ProgressEvents IN
    \A i \in 1..Len(pe) : pe[i].kind = "assign" => ReportedBeforeOverwritten(pe, i)

\* C13 as amended: every value progress takes is passed to
\* response.update_status before it is overwritten, except the baseline 5 that
\* line 190 sets after the dataset is opened: the first unit's progress += 1
\* overwrites it and no update_status call ever carries it.
C13_EveryValueButBaselineReported ==
    LET pe == ProgressEvents
        r == Reported
    IN
        /\ \A i \in 1..Len(pe) :
            (/\ pe[i].kind = "assign"
             /\ pe[i].message # <<"progress += 5">>)
            => ReportedBeforeOverwritten(pe, i)
        /\ \A i \in 1..Len(pe) :
            (/\ pe[i].kind = "assign"
             /\ pe[i].message = <<"progress += 5">>)
            => /\ pe[i].percentage = <<5, 1>>
               /\ \A k \in 1..Len(r) : r[k].percentage # <<5, 1>>

\* C13 witness: a request over two matched periods has completed: its
\* progress took 0, 5, 6, 50, 51 and 95.
C13_Witness ==
    /\ pc = "done"
    /\ ~request.dry_run
    /\ total_files = 2
    /\ Len(SelectSeq(ProgressEvents, LAMBDA e : e.kind = "assign")) = 6

\* what the handler did to the response and to its collaborators, in order
Trace == SelectSeq(events, LAMBDA e : e.kind # "assign")

\* the number of create_climo_files calls among the first i events of t
CallsUpTo(t, i) == Cardinality({j \in 1..i : t[j].kind = "create_climo_files"})

\* C14: in a non-dry-run request the event just before each
\* create_climo_files call is a 'Processing file' report and the event just
\* after it is a 'Climo file created' report (a call with no event after it
\* has raised); the working directory is scanned and the manifest built only
\* after the call for the last matched period, with no call after them; and
\* 'Completed process' at 100 is the last event, made with the manifest set.
C14_EventOrder ==
    LET t == Trace IN
    (Branched /\ ~request.dry_run) =>
        \A i \in 1..Len(t) :
            /\ t[i].kind = "create_climo_files" =>
                /\ i > 1
                /\ t[i - 1].kind = "update_status"
                /\ t[i - 1].message[1] = "Processing file "
                /\ IF i < Len(t)
                   THEN /\ t[i + 1].kind = "update_status"
                        /\ t[i + 1].message = <<"Climo file created">>
                   ELSE pc = "failed" /\ error = ComputeError
            /\ t[i].kind \in {"collect_climo_files", "build_meta_link"} =>
                /\ CallsUpTo(t, i) = Cardinality(request.climo \cap dataset.avail)
                /\ CallsUpTo(t, Len(t)) = CallsUpTo(t, i)
                /\ t[i - 1].kind # "create_climo_files"
            /\ t[i].message = <<"Completed process">> =>
                /\ i = Len(t)
                /\ t[i].percentage = <<100, 1>>
                /\ OutputSet("output")
                /\ \E j \in 1..(i - 1) : t[j].kind = "build_meta_link"

\* C14 witness: a request over two matched periods has completed after twelve
\* events, the scan being the tenth.
C14_Witness ==
    /\ pc = "done"
    /\ ~request.dry_run
    /\ total_files = 2
    /\ Len(Trace) = 12
    /\ Trace[4].kind = "create_climo_files"
    /\ Trace[7].kind = "create_climo_files"
    /\ Trace[9].kind = "collect_climo_files"
    /\ Trace[11].kind = "build_meta_link"

\* C15: in every reachable state of a request, whatever the 1 to 6 requested
\* periods and the catalog, progress lies in [0, 100], as does every
\* percentage reported; before the terminal 'Completed process' update
\* neither exceeds 95.
C15_ProgressInRange ==
    LET r == Reported
    IN
        /\ Cardinality(request.climo) \in 1..6
        /\ 0 <= progress[1]
        /\ progress[1] <= 95 * progress[2]
        /\ \A i \in 1..Len(r) :
            /\ 0 <= r[i].percentage[1]
            /\ r[i].percentage[1] <= 100 * r[i].percentage[2]
            /\ r[i].message # <<"Completed process">> =>
                    r[i].percentage[1] <= 95 * r[i].percentage[2]

\* C15 witness: a request over six matched periods has completed with
\* progress at 95.
C15_Witness ==
    /\ pc = "done"
    /\ ~request.dry_run
    /\ Cardinality(request.climo) = 6
    /\ total_files = 6
    /\ progress = <<95, 1>>

\* the 'Processing file k/n' reports made
ProcessingReports ==
    SelectSeq(Statuses, LAMBDA e : Len(e.message) = 4 /\ e.message[1] = "Processing file ")

\* the decimal digit of a count from 0 to 6
Digit(k) == <<"0", "1", "2", "3", "4", "5", "6">>[k + 1]

\* the number of create_climo_files calls that have returned
CallsReturned ==
    IF error = ComputeError THEN BagCardinality(calls) - 1 ELSE BagCardinality(calls)

\* C16: throughout the processing loop remaining_files is total_files less
\* the number of create_climo_files calls that have returned; the i-th
\* 'Processing file k/n' message has k = n - i + 1, so k = n for the first unit
\* and k = 1 for the last; remaining_files is 0 once the loop has ended.
C16_RemainingFilesCountsDown ==
    LET processing == ProcessingReports
    IN
        (/\ Branched
         /\ ~request.dry_run
         /\ dataset.opens)
        => /\ total_files = Cardinality(request.climo \cap dataset.avail)
           /\ remaining_files = total_files - CallsReturned
           /\ \A i \in 1..Len(processing) :
                processing[i].message =
                    <<"Processing file ", Digit(total_files - i + 1), "/", Digit(total_files)>>
           /\ pc \in {"finish", "done"} =>
                /\ remaining_files = 0
                /\ Len(processing) = total_files

\* C16 witness: a request over three matched periods has completed, its
\* messages having been 'Processing file 3/3', '2/3' and '1/3'.
C16_Witness ==
    /\ pc = "done"
    /\ ~request.dry_run
    /\ total_files = 3
    /\ remaining_files = 0
    /\ ProcessingReports[1].message = <<"Processing file ", "3", "/", "3">>
    /\ ProcessingReports[3].message = <<"Processing file ", "1", "/", "3">>

====
